---- MODULE Spec2Model ----
(***************************************************************************)
(* Model of streamlit_app.py: the sales dashboard script.                  *)
(*                                                                         *)
(* Text is a sequence of one-character strings.  Column names and the      *)
(* sentinel key are written in ASCII:                                      *)
(*   "category" = 분류명, "product" = 상품명, "orders" = 주문수,            *)
(*   "amount" = 실판매금액, "branch" = 지점명, "month" = 월,                *)
(*   Gita = '기타' (two syllables).                                        *)
(* A cell value is a record [k, d]: k is its Python type ("str", "int",    *)
(* "float") or, for the float specials, "nan", "inf", "-inf"; d is the     *)
(* text of a str and the decimal digits of a number.                       *)
(***************************************************************************)
EXTENDS Integers, Sequences, FiniteSets, TLC

VARIABLES
    session_state,  \* st.session_state: file1_path, file2_path, show_report
    df_prev,        \* the frame loaded for the previous period, or None
    df_curr,        \* the frame loaded for the current period, or None
    arg,            \* function harness: the input of the function under test
    ret,            \* function harness: its result
    ret2,           \* function harness: the result of the second pass
    pc,             \* function harness: position
    upload_dir,     \* UPLOAD_DIR: what is stored at each path
    cache,          \* st.cache_data of load_and_preprocess_from_path
    sessions        \* the browser sessions the server runs the script for

vars == <<session_state, df_prev, df_curr, arg, ret, ret2, pc, upload_dir, cache, sessions>>

\* The state shared by the sessions of one server, and the sessions
server == <<upload_dir, cache, sessions>>

--------------------------------------------------------------------------
(* Text helpers                                                            *)

Digits == <<"0", "1", "2", "3", "4", "5", "6", "7", "8", "9">>

IsDigit(c) == \E i \in 1..10 : Digits[i] = c

IsSpace(c) == c = " "

Str(v) == [k |-> "str", d |-> v]

\* '기타'
Gita == <<"gi", "ta">>

\* the position of the first element of s at or after i that is in C, or 0
RECURSIVE FindFrom(_, _, _)
FindFrom(s, i, C) ==
    IF i > Len(s) THEN 0
    ELSE IF s[i] \in C THEN i
    ELSE FindFrom(s, i + 1, C)

\* str.strip(): leading and trailing whitespace removed
RECURSIVE LStrip(_)
LStrip(s) == IF s # <<>> /\ IsSpace(Head(s)) THEN LStrip(Tail(s)) ELSE s

RECURSIVE RStrip(_)
RStrip(s) ==
    IF s # <<>> /\ IsSpace(s[Len(s)]) THEN RStrip(SubSeq(s, 1, Len(s) - 1)) ELSE s

Strip(s) == RStrip(LStrip(s))

\* str.replace(',', '')
RemoveCommas(s) == SelectSeq(s, LAMBDA c : c # ",")

\* digits without leading zeros ("0" for zero)
RECURSIVE Canon(_)
Canon(d) == IF Len(d) > 1 /\ Head(d) = "0" THEN Canon(Tail(d)) ELSE d

RECURSIVE RStripZeros(_)
RStripZeros(d) ==
    IF Len(d) > 1 /\ d[Len(d)] = "0" THEN RStripZeros(SubSeq(d, 1, Len(d) - 1)) ELSE d

--------------------------------------------------------------------------
(* Python's str() and float()                                              *)

\* The length from which repr(float) switches to exponent notation:
\* repr(1e15) = '1000000000000000.0', repr(1e16) = '1e+16'.
ReprMaxDigits == 16

\* repr of an integer-valued float with decimal digits d
FloatRepr(d) ==
    IF Len(d) <= ReprMaxDigits THEN d \o <<".", "0">>
    ELSE LET m == RStripZeros(d)
             e == Len(d) - 1
         IN  <<Head(m)>>
             \o (IF Len(m) > 1 THEN <<".">> \o Tail(m) ELSE <<>>)
             \o <<"e", "+", Digits[(e \div 10) + 1], Digits[(e % 10) + 1]>>

\* str(x) of a cell value
PyStr(x) ==
    CASE x.k = "str" -> x.d
      [] x.k = "int" -> x.d
      [] x.k = "float" -> FloatRepr(x.d)
      [] x.k = "nan" -> <<"n", "a", "n">>
      [] x.k = "inf" -> <<"i", "n", "f">>
      [] x.k = "-inf" -> <<"-", "i", "n", "f">>

AllDigits(s) == s # <<>> /\ \A i \in 1..Len(s) : IsDigit(s[i])

\* float(s) for the texts clean_price passes to it: a run of digits, or a
\* text with no digit in it, of which Python accepts only the specials, with
\* an optional sign and surrounding whitespace.  The digit runs of this
\* model are below 2^53 or a power of ten up to 10^22, which float holds
\* exactly.  "error" stands for ValueError.
PyFloat(s) ==
    LET t == Strip(s)
        signed == t # <<>> /\ Head(t) \in {"+", "-"}
        body == IF signed THEN Tail(t) ELSE t
        neg == signed /\ Head(t) = "-"
    IN  IF AllDigits(t) THEN [k |-> "float", d |-> Canon(t)]
        ELSE IF body = <<"n", "a", "n">> THEN [k |-> "nan", d |-> <<>>]
        ELSE IF body \in {<<"i", "n", "f">>, <<"i", "n", "f", "i", "n", "i", "t", "y">>}
             THEN [k |-> IF neg THEN "-inf" ELSE "inf", d |-> <<>>]
        ELSE [k |-> "error", d |-> <<>>]

--------------------------------------------------------------------------
(* clean_price                                                             *)

PriceChars == {Digits[i] : i \in 1..10} \cup {","}

IsPriceChar(c) == c \in PriceChars

\* the longest run of price characters that starts at i
RECURSIVE RunFrom(_, _)
RunFrom(s, i) ==
    IF i <= Len(s) /\ IsPriceChar(s[i]) THEN <<s[i]>> \o RunFrom(s, i + 1) ELSE <<>>

\* re.search(r'\(?([\d,]+)\)?', s): group 1 of the leftmost match is the
\* first maximal run of digits and commas; <<>> when nothing matches.
PriceMatch(s) ==
    LET i == FindFrom(s, 1, PriceChars) IN IF i = 0 THEN <<>> ELSE RunFrom(s, i)

clean_price(x) ==
    LET s == PyStr(x)
        m == PriceMatch(s)
        t == RemoveCommas(IF m # <<>> THEN m ELSE s)
        f == PyFloat(t)
    IN  IF f.k = "error" THEN [k |-> "int", d |-> <<"0">>] ELSE f

--------------------------------------------------------------------------
(* extract_prefix, extract_paren                                           *)

IsNa(x) == x.k = "nan"

\* re.match(r"([^(]+)", s): the text before the first "(", which has to be
\* non-empty; <<>> when nothing matches.
PrefixMatch(s) ==
    LET i == FindFrom(s, 1, {"("})
    IN  IF i = 0 THEN s ELSE SubSeq(s, 1, i - 1)

extract_prefix(x) ==
    IF IsNa(x) \/ Strip(PyStr(x)) = <<>> THEN Gita
    ELSE LET m == PrefixMatch(PyStr(x))
         IN  IF m # <<>> THEN Strip(m) ELSE Gita

\* re.search(r'\(([^)]+)\)', s): from the leftmost "(" that is followed by
\* at least one character other than ")" and then a ")", the text between
\* them; <<>> when nothing matches.
RECURSIVE ParenMatch(_, _)
ParenMatch(s, from) ==
    LET i == FindFrom(s, from, {"("})
        j == FindFrom(s, i + 1, {")"})
    IN  IF i = 0 THEN <<>>
        ELSE IF j > i + 1 THEN SubSeq(s, i + 1, j - 1)
        ELSE IF j = 0 THEN <<>>
        ELSE ParenMatch(s, i + 1)

extract_paren(x) ==
    LET m == ParenMatch(PyStr(x), 1)
    IN  IF m # <<>> THEN Strip(m) ELSE Gita

--------------------------------------------------------------------------
(* load_and_preprocess_from_path                                           *)

None == [ok |-> FALSE]

required_cols == <<"category", "product", "orders", "amount", "branch", "month">>

Defaultable == {"branch", "month"}

SupportedExt == {".xls", ".xlsx", ".csv"}

\* df["실판매금액"].apply(clean_price); df["분류그룹"] = df["분류명"].apply(extract_paren)
Preprocess(rows) ==
    [i \in 1..Len(rows) |->
        [category |-> rows[i].category,
         orders |-> rows[i].orders,
         amount |-> clean_price(rows[i].amount),
         group |-> extract_paren(rows[i].category)]]

\* The load that goes on when a required column is absent
load_without_abort(file, label) ==
    IF ~file.ok THEN None
    ELSE IF file.ext \notin SupportedExt THEN None
    ELSE [ok |-> TRUE,
          cols |-> file.cols \cup Defaultable \cup {"group"},
          filled |-> Defaultable \ file.cols,
          month |-> label,
          rows |-> Preprocess(file.rows)]

\* A file is None (no path, or nothing at the path) or [ok, ext, cols, rows]:
\* what the reader of its format decodes from it.  The columns that are
\* filled with a default are listed in df.filled.
load_and_preprocess_from_path(file, label) ==
    IF ~file.ok THEN None
    ELSE IF file.ext \notin SupportedExt THEN None
    ELSE IF \E i \in 1..Len(required_cols) :
                required_cols[i] \notin file.cols /\ required_cols[i] \notin Defaultable
         THEN None
    ELSE [ok |-> TRUE,
          cols |-> file.cols \cup Defaultable \cup {"group"},
          filled |-> Defaultable \ file.cols,
          month |-> label,
          rows |-> Preprocess(file.rows)]

--------------------------------------------------------------------------
(* The pandas operations the script uses.  A Series or a frame is a        *)
(* sequence of records in index order; an amount is a whole number of won, *)
(* NaN is a record with na = TRUE.                                         *)

RECURSIVE DigitsToInt(_)
DigitsToInt(d) ==
    IF d = <<>> THEN 0
    ELSE 10 * DigitsToInt(SubSeq(d, 1, Len(d) - 1))
         + (CHOOSE v \in 0..9 : Digits[v + 1] = d[Len(d)])

\* The number a float cell adds to a sum: sum() skips NaN.  The tables of
\* Spec hold no infinite amount.
Num(x) == IF x.k = "nan" THEN 0 ELSE DigitsToInt(x.d)

\* The code point order of the characters that occur in keys
CharOrder ==
    <<" ", "(", ")", "A", "B", "C", "D", "E", "F", "G", "H", "I", "J", "K", "L",
      "M", "N", "a", "b", "c", "d", "e", "f", "g", "h", "i", "j", "k", "l", "m",
      "n", "gi", "ta">>

Ord == [c \in {CharOrder[i] : i \in 1..Len(CharOrder)} |->
           CHOOSE i \in 1..Len(CharOrder) : CharOrder[i] = c]

\* a < b for str
RECURSIVE TextLess(_, _)
TextLess(a, b) ==
    IF b = <<>> THEN FALSE
    ELSE IF a = <<>> THEN TRUE
    ELSE IF Head(a) = Head(b) THEN TextLess(Tail(a), Tail(b))
    ELSE Ord[Head(a)] < Ord[Head(b)]

\* acc with v added to the entry of key, which is made in key order when
\* acc has none
RECURSIVE AddTo(_, _, _)
AddTo(acc, key, v) ==
    IF acc = <<>> THEN <<[key |-> key, na |-> FALSE, v |-> v]>>
    ELSE IF Head(acc).key = key
         THEN <<[key |-> key, na |-> FALSE, v |-> Head(acc).v + v]>> \o Tail(acc)
    ELSE IF TextLess(key, Head(acc).key)
         THEN <<[key |-> key, na |-> FALSE, v |-> v]>> \o acc
    ELSE <<Head(acc)>> \o AddTo(Tail(acc), key, v)

\* rows.groupby(keyCol)[valCol].sum(): one entry per key, in key order
RECURSIVE GroupBySum(_, _, _)
GroupBySum(rows, keyCol, valCol) ==
    IF rows = <<>> THEN <<>>
    ELSE LET r == rows[Len(rows)]
             v == IF valCol = "amount" THEN Num(r.amount) ELSE r[valCol]
         IN  AddTo(GroupBySum(SubSeq(rows, 1, Len(rows) - 1), keyCol, valCol),
                   r[keyCol], v)

NaN(key) == [key |-> key, na |-> TRUE, v |-> 0]

\* a + b for two Series: the index is the sorted union of the two, and a
\* key that one side lacks gets NaN.
RECURSIVE SeriesAdd(_, _)
SeriesAdd(a, b) ==
    IF a = <<>> THEN [i \in 1..Len(b) |-> NaN(b[i].key)]
    ELSE IF b = <<>> THEN [i \in 1..Len(a) |-> NaN(a[i].key)]
    ELSE IF Head(a).key = Head(b).key
         THEN <<[key |-> Head(a).key, na |-> FALSE, v |-> Head(a).v + Head(b).v]>>
              \o SeriesAdd(Tail(a), Tail(b))
    ELSE IF TextLess(Head(a).key, Head(b).key)
         THEN <<NaN(Head(a).key)>> \o SeriesAdd(Tail(a), b)
    ELSE <<NaN(Head(b).key)>> \o SeriesAdd(a, Tail(b))

\* r goes before the first element that sorts strictly after it
RECURSIVE InsertBy(_, _, _, _)
InsertBy(s, r, col, ascending) ==
    IF s = <<>> THEN <<r>>
    ELSE IF (IF ascending THEN r[col] < Head(s)[col] ELSE r[col] > Head(s)[col])
         THEN <<r>> \o s
    ELSE <<Head(s)>> \o InsertBy(Tail(s), r, col, ascending)

\* The sort of sort_values on a column without NaN.  Frames of this size are
\* sorted by insertion, which keeps equal values in their index order in
\* both directions.
RECURSIVE SortBy(_, _, _)
SortBy(s, col, ascending) ==
    IF s = <<>> THEN <<>>
    ELSE InsertBy(SortBy(SubSeq(s, 1, Len(s) - 1), col, ascending),
                  s[Len(s)], col, ascending)

\* Series.sort_values(ascending=False): NaN entries go last, in index order
SortValuesDesc(s) ==
    SortBy(SelectSeq(s, LAMBDA e : ~e.na), "v", FALSE) \o SelectSeq(s, LAMBDA e : e.na)

head(s, n) == SubSeq(s, 1, IF Len(s) < n THEN Len(s) ELSE n)

\* rows[rows[keyCol].isin(keys)]
IsIn(rows, keyCol, keys) == SelectSeq(rows, LAMBDA r : r[keyCol] \in keys)

Row(key, current, previous) == [key |-> key, current |-> current, previous |-> previous]

\* The merge with how="inner": only the keys of both sides
RECURSIVE MergeInner(_, _)
MergeInner(curr, prev) ==
    IF curr = <<>> \/ prev = <<>> THEN <<>>
    ELSE IF Head(curr).key = Head(prev).key
         THEN <<Row(Head(curr).key, Head(curr).v, Head(prev).v)>>
              \o MergeInner(Tail(curr), Tail(prev))
    ELSE IF TextLess(Head(curr).key, Head(prev).key)
         THEN MergeInner(Tail(curr), prev)
    ELSE MergeInner(curr, Tail(prev))

\* pd.merge(curr, prev, on=key, how="outer").fillna(0): one row per key of
\* either side, in key order, a missing side filled with 0
RECURSIVE MergeOuterFill0(_, _)
MergeOuterFill0(curr, prev) ==
    IF curr = <<>> THEN [i \in 1..Len(prev) |-> Row(prev[i].key, 0, prev[i].v)]
    ELSE IF prev = <<>> THEN [i \in 1..Len(curr) |-> Row(curr[i].key, curr[i].v, 0)]
    ELSE IF Head(curr).key = Head(prev).key
         THEN <<Row(Head(curr).key, Head(curr).v, Head(prev).v)>>
              \o MergeOuterFill0(Tail(curr), Tail(prev))
    ELSE IF TextLess(Head(curr).key, Head(prev).key)
         THEN <<Row(Head(curr).key, Head(curr).v, 0)>> \o MergeOuterFill0(Tail(curr), prev)
    ELSE <<Row(Head(prev).key, 0, Head(prev).v)>> \o MergeOuterFill0(curr, Tail(prev))

\* a / b in float arithmetic: 0.0 / 0.0 is NaN
Divide(a, b) ==
    IF b = 0 THEN [nan |-> TRUE, num |-> 0, den |-> 1]
    ELSE [nan |-> FALSE, num |-> a, den |-> b]

Times100(q) == [nan |-> q.nan, num |-> q.num * 100, den |-> q.den]

--------------------------------------------------------------------------
(* The script                                                              *)

\* .head(10) of the ranking
TopN == 10

\* .head(3) of the report's gainers and losers
Top3N == 3

\* .head(5) of the concentration ratio
Top5N == 5

\* df["분류앞"] = df["분류명"].apply(extract_prefix)
WithPrefix(rows) ==
    [i \in 1..Len(rows) |->
        [category |-> rows[i].category,
         orders |-> rows[i].orders,
         amount |-> rows[i].amount,
         group |-> rows[i].group,
         prefix |-> extract_prefix(rows[i].category)]]

\* .index.tolist()
IndexOf(s) == {s[i].key : i \in 1..Len(s)}

\* The ranking by the current period's sums alone
top10_by_current(prev, curr, keyCol, valCol) ==
    IndexOf(head(SortValuesDesc(GroupBySum(curr, keyCol, valCol)), TopN))

\* group_sum.sort_values(ascending=False).head(10).index.tolist()
top10_groups(prev, curr, keyCol, valCol) ==
    IndexOf(head(SortValuesDesc(SeriesAdd(GroupBySum(prev, keyCol, valCol),
                                          GroupBySum(curr, keyCol, valCol))),
                 TopN))

\* prev_group, curr_group and their outer merge
compare(prev, curr, keyCol, valCol) ==
    LET top10 == top10_groups(prev, curr, keyCol, valCol)
    IN  MergeOuterFill0(GroupBySum(IsIn(curr, keyCol, top10), keyCol, valCol),
                        GroupBySum(IsIn(prev, keyCol, top10), keyCol, valCol))

\* The two columns without .replace(0, 1) on the divisor
WithDeltaNoGuard(cmp) ==
    [i \in 1..Len(cmp) |->
        [key |-> cmp[i].key,
         current |-> cmp[i].current,
         previous |-> cmp[i].previous,
         delta |-> cmp[i].current - cmp[i].previous,
         delta_rate |-> Times100(Divide(cmp[i].current - cmp[i].previous,
                                        cmp[i].previous))]]

\* compare["증감액"] and compare["증감률"]: .replace(0, 1) on the divisor
WithDelta(cmp) ==
    [i \in 1..Len(cmp) |->
        LET delta == cmp[i].current - cmp[i].previous
            d == IF cmp[i].previous = 0 THEN 1 ELSE cmp[i].previous
        IN  [key |-> cmp[i].key,
             current |-> cmp[i].current,
             previous |-> cmp[i].previous,
             delta |-> delta,
             delta_rate |-> Times100(Divide(delta, d))]]

top3(cmp) == head(SortBy(cmp, "delta", FALSE), Top3N)

bottom3(cmp) == head(SortBy(cmp, "delta", TRUE), Top3N)

\* df["실판매금액"].sum()
RECURSIVE Total(_)
Total(rows) == IF rows = <<>> THEN 0 ELSE Num(Head(rows).amount) + Total(Tail(rows))

\* Series.sum()
RECURSIVE SumValues(_)
SumValues(s) == IF s = <<>> THEN 0 ELSE Head(s).v + SumValues(Tail(s))

\* the second pass over the loaded frame: clean_price and extract_paren again
SecondPass(rows) ==
    [i \in 1..Len(rows) |->
        [category |-> rows[i].category,
         orders |-> rows[i].orders,
         amount |-> clean_price(rows[i].amount),
         group |-> extract_paren(rows[i].category)]]

\* top_categories: the five largest 분류그룹 sums; sales_ratio is their sum
\* over the total, times 100
sales_ratio(rows, total) ==
    Times100(Divide(SumValues(head(SortBy(GroupBySum(rows, "group", "amount"), "v", FALSE),
                                   Top5N)),
                    total))

NoRatio == [nan |-> FALSE, num |-> 0, den |-> 1]

\* The report and the remarks of the two-file branch, from the two
\* comparisons
Report(prev, curr, cmp, ocmp) ==
    [branch |-> "both",
     total_prev |-> Total(prev.rows),
     total_curr |-> Total(curr.rows),
     compare |-> cmp,
     top3 |-> top3(cmp),
     bottom3 |-> bottom3(cmp),
     order_compare |-> ocmp,
     top3_order |-> top3(ocmp),
     bottom3_order |-> bottom3(ocmp),
     sales_ratio |-> sales_ratio(SecondPass(curr.rows), Total(curr.rows))]

\* The comparison of 실판매금액 by 분류그룹
group_compare(prev_rows, curr_rows) ==
    WithDelta(compare(prev_rows, curr_rows, "group", "amount"))

\* The comparison of 주문수 by 분류앞
order_compare(prev_rows, curr_rows) ==
    WithDelta(compare(WithPrefix(prev_rows), WithPrefix(curr_rows), "prefix", "orders"))

\* One run of the script from the two loaded frames: the branch it takes
\* and what that branch computes.
Script(prev, curr) ==
    IF prev.ok /\ curr.ok THEN
        Report(prev, curr, group_compare(prev.rows, curr.rows),
               order_compare(prev.rows, curr.rows))
    ELSE
        [branch |-> IF curr.ok THEN "single" ELSE "none",
         total_prev |-> 0,
         total_curr |-> IF curr.ok THEN Total(curr.rows) ELSE 0,
         compare |-> <<>>,
         top3 |-> <<>>,
         bottom3 |-> <<>>,
         order_compare |-> <<>>,
         top3_order |-> <<>>,
         bottom3_order |-> <<>>,
         sales_ratio |-> IF curr.ok
                         THEN sales_ratio(curr.rows, Total(curr.rows))
                         ELSE NoRatio]

--------------------------------------------------------------------------
(* The uploads of one session                                              *)

\* The bound of the uploaded tables: the number of their common rows
NumFiller == 9

AllCols == {required_cols[i] : i \in 1..Len(required_cols)}

NoPath == [ok |-> FALSE]

Lower == <<"a", "b", "c", "d", "e", "f", "g", "h", "i", "j">>
Upper == <<"A", "B", "C", "D", "E", "F", "G", "H", "I", "J">>

\* Row i of the common part of a table: category "a (A)", one order, "(2,0)" won
FillerRow(i) ==
    [category |-> Str(<<Lower[i], " ", "(", Upper[i], ")">>),
     orders |-> 1,
     amount |-> Str(<<"(", "2", ",", "0", ")">>)]

\* The rows a table may hold besides: two amounts for one category, and a
\* category without parentheses
ExtraRows ==
    << [category |-> Str(<<"k", "(", "K", ")">>), orders |-> 2,
        amount |-> Str(<<"1", "0", "0">>)],
       [category |-> Str(<<"k", "(", "K", ")">>), orders |-> 3,
        amount |-> Str(<<"1", "5", "0">>)],
       [category |-> Str(<<"l">>), orders |-> 4,
        amount |-> Str(<<"(", "5", "0", ")">>)] >>

RECURSIVE RowsOf(_, _)
RowsOf(S, from) ==
    IF from > Len(ExtraRows) THEN <<>>
    ELSE (IF from \in S THEN <<ExtraRows[from]>> ELSE <<>>) \o RowsOf(S, from + 1)

\* The decoded content of an uploaded csv file with n common rows and the
\* extra rows S
Table(n, S) ==
    [ok |-> TRUE, ext |-> ".csv", cols |-> AllCols, n |-> n, extra |-> S,
     rows |-> [i \in 1..n |-> FillerRow(i)] \o RowsOf(S, 1)]

\* The files the user may upload next for a period whose last upload was f:
\* an empty table at first, then the last table with one more row.
NextUploads(f) ==
    IF ~f.ok THEN {Table(0, {})}
    ELSE {Table(f.n + 1, f.extra) : x \in {y \in {1} : f.n < NumFiller}}
         \cup {Table(f.n, f.extra \cup {e}) : e \in (1..Len(ExtraRows)) \ f.extra}

\* save_uploaded_file: the path under which the upload is kept.  Every file
\* of Spec carries a name of its own, so a path names one content and is
\* written here as that content.
save_uploaded_file(uploaded_file, label) == uploaded_file

NoValue == [k |-> "none", d |-> <<>>]

\* One session on its own: nothing shared with another
IdleServer ==
    /\ upload_dir = <<>>
    /\ cache = <<>>
    /\ sessions = <<>>

Init ==
    /\ IdleServer
    /\ session_state = [file1_path |-> NoPath, file2_path |-> NoPath]
    /\ df_prev = None
    /\ df_curr = None
    /\ arg = NoValue
    /\ ret = NoValue
    /\ ret2 = NoValue
    /\ pc = "session"

\* The run of the script that follows a change of the uploader widgets:
\* the paths are recorded and the two frames loaded.  st.cache_data answers
\* the load of a path it has seen with the frame it kept for it.
Rerun(ss) ==
    /\ session_state' = ss
    /\ df_prev' = IF ss.file1_path = session_state.file1_path THEN df_prev
                  ELSE load_and_preprocess_from_path(ss.file1_path, "prev")
    /\ df_curr' = IF ss.file2_path = session_state.file2_path THEN df_curr
                  ELSE load_and_preprocess_from_path(ss.file2_path, "curr")
    /\ UNCHANGED <<arg, ret, ret2, pc, server>>

\* The user uploads a file for the previous period (전달)
UploadPrev ==
    /\ pc = "session"
    /\ \E f \in NextUploads(session_state.file1_path) :
          Rerun([session_state EXCEPT !.file1_path = save_uploaded_file(f, "prev")])

\* The user uploads a file for the current period (당월)
UploadCurr ==
    /\ pc = "session"
    /\ \E f \in NextUploads(session_state.file2_path) :
          Rerun([session_state EXCEPT !.file2_path = save_uploaded_file(f, "curr")])

Next == UploadPrev \/ UploadCurr

Spec == Init /\ [][Next]_vars

\* What the script shows from the frames it has loaded
page == Script(df_prev, df_curr)

--------------------------------------------------------------------------
(* clean_price on its own: at load time, then over the loaded column       *)

\* Bounds of the amount texts
MaxRawLen == 4
MaxZeros == 17

PriceAlphabet == {"0", "1", ",", "(", ")", "-", "n", "a"}

Texts(A, n) == UNION {[1..m -> A] : m \in 0..n}

\* "1" followed by k zeros
LongNumeral(k) == <<"1">> \o [i \in 1..k |-> "0"]

\* The cells of an amount column: short texts, long numerals, the NaN of an
\* empty cell and the numbers of a numeric column
RawAmounts ==
    {Str(t) : t \in Texts(PriceAlphabet, MaxRawLen)}
    \cup {Str(LongNumeral(k)) : k \in 0..MaxZeros}
    \cup {[k |-> "nan", d |-> <<>>], [k |-> "int", d |-> <<"1", "0">>],
          [k |-> "float", d |-> <<"1", "0">>]}

IdleSession ==
    /\ IdleServer
    /\ session_state = [file1_path |-> NoPath, file2_path |-> NoPath]
    /\ df_prev = None
    /\ df_curr = None

InitPrice ==
    /\ IdleSession
    /\ arg \in RawAmounts
    /\ ret = NoValue
    /\ ret2 = NoValue
    /\ pc = "call"

\* df["실판매금액"].apply(clean_price) at load time
CleanAtLoad ==
    /\ pc = "call"
    /\ ret' = clean_price(arg)
    /\ pc' = "loaded"
    /\ UNCHANGED <<server, session_state, df_prev, df_curr, arg, ret2>>

\* df_prev["실판매금액"].apply(clean_price) over the loaded column
CleanAgain ==
    /\ pc = "loaded"
    /\ ret2' = clean_price(ret)
    /\ pc' = "done"
    /\ UNCHANGED <<server, session_state, df_prev, df_curr, arg, ret>>

NextPrice == CleanAtLoad \/ CleanAgain

SpecPrice == InitPrice /\ [][NextPrice]_vars

--------------------------------------------------------------------------
(* extract_prefix and extract_paren on their own                           *)

\* Bound of the category labels
MaxLabelLen == 4

LabelAlphabet == {"a", " ", "(", ")"}

Labels ==
    {Str(t) : t \in Texts(LabelAlphabet, MaxLabelLen)} \cup {[k |-> "nan", d |-> <<>>]}

InitKeys ==
    /\ IdleSession
    /\ arg \in Labels
    /\ ret = NoValue
    /\ ret2 = NoValue
    /\ pc = "call"

\* df["분류앞"] = df["분류명"].apply(extract_prefix)
ExtractPrefix ==
    /\ pc \in {"call", "group"}
    /\ ret' = Str(extract_prefix(arg))
    /\ pc' = IF pc = "call" THEN "prefix" ELSE "done"
    /\ UNCHANGED <<server, session_state, df_prev, df_curr, arg, ret2>>

\* df["분류그룹"] = df["분류명"].apply(extract_paren)
ExtractParen ==
    /\ pc \in {"call", "prefix"}
    /\ ret2' = Str(extract_paren(arg))
    /\ pc' = IF pc = "call" THEN "group" ELSE "done"
    /\ UNCHANGED <<server, session_state, df_prev, df_curr, arg, ret>>

NextKeys == ExtractPrefix \/ ExtractParen

SpecKeys == InitKeys /\ [][NextKeys]_vars

--------------------------------------------------------------------------
(* load_and_preprocess_from_path on its own                                *)

Extensions == {".xls", ".xlsx", ".csv", ".txt"}

\* The files at a path: tables of every extension with any of the columns
Files ==
    {[Table(n, {}) EXCEPT !.ext = e, !.cols = cs] :
        n \in 0..1, e \in Extensions, cs \in SUBSET AllCols}

InitLoad ==
    /\ IdleSession
    /\ arg \in Files
    /\ ret = NoValue
    /\ ret2 = NoValue
    /\ pc = "call"

Load ==
    /\ pc = "call"
    /\ \E label \in {"prev", "curr"} : ret' = load_and_preprocess_from_path(arg, label)
    /\ pc' = "done"
    /\ UNCHANGED <<server, session_state, df_prev, df_curr, arg, ret2>>

NextLoad == Load

SpecLoad == InitLoad /\ [][NextLoad]_vars

--------------------------------------------------------------------------
(* The aggregation of one loaded frame on its own                          *)

\* acc with the amount x added to the bucket of key: sum skips NaN, and
\* count is the number of values that are not NaN
RECURSIVE AddAgg(_, _, _)
AddAgg(acc, key, x) ==
    LET c == IF IsNa(x) THEN 0 ELSE 1 IN
    IF acc = <<>> THEN <<[key |-> key, sum |-> Num(x), count |-> c]>>
    ELSE IF Head(acc).key = key
         THEN <<[key |-> key, sum |-> Head(acc).sum + Num(x),
                 count |-> Head(acc).count + c]>> \o Tail(acc)
    ELSE IF TextLess(key, Head(acc).key)
         THEN <<[key |-> key, sum |-> Num(x), count |-> c]>> \o acc
    ELSE <<Head(acc)>> \o AddAgg(Tail(acc), key, x)

\* rows.groupby("분류그룹")["실판매금액"].agg(['sum', 'count']): one bucket
\* per key, in key order
RECURSIVE top_categories(_)
top_categories(rows) ==
    IF rows = <<>> THEN <<>>
    ELSE AddAgg(top_categories(SubSeq(rows, 1, Len(rows) - 1)),
                rows[Len(rows)].group, rows[Len(rows)].amount)

\* rows.groupby("분류앞")["주문수"].sum() after the 분류앞 column is made
top10_order_group(rows) == GroupBySum(WithPrefix(rows), "prefix", "orders")

\* Bound of the record sets
MaxRecords == 2

NaCell == [k |-> "nan", d |-> <<>>]

\* The cells of 분류명: two labels of one group, a label without
\* parentheses, an empty cell
RecordCategories ==
    {Str(<<"a", "(", "A", ")">>), Str(<<"b", " ", "(", "A", ")">>), Str(<<"c">>), NaCell}

\* The cells of 실판매금액: two amounts and an empty cell
RecordAmounts == {Str(<<"1", ",", "0">>), Str(<<"(", "5", ")">>), NaCell}

RecordOrders == {1, 2}

RawRecords ==
    [category : RecordCategories, orders : RecordOrders, amount : RecordAmounts]

RecordSets == UNION {[1..n -> RawRecords] : n \in 0..MaxRecords}

InitAgg ==
    /\ IdleSession
    /\ arg \in RecordSets
    /\ ret = NoValue
    /\ ret2 = NoValue
    /\ pc = "call"

\* The load of the rows: clean_price and extract_paren on every row
LoadRecords ==
    /\ pc = "call"
    /\ ret' = Preprocess(arg)
    /\ pc' = "loaded"
    /\ UNCHANGED <<server, session_state, df_prev, df_curr, arg, ret2>>

\* The two aggregations of the loaded frame
Aggregate ==
    /\ pc = "loaded"
    /\ ret2' = [top_categories |-> top_categories(ret),
                top10_order_group |-> top10_order_group(ret)]
    /\ pc' = "done"
    /\ UNCHANGED <<server, session_state, df_prev, df_curr, arg, ret>>

NextAgg == LoadRecords \/ Aggregate

SpecAgg == InitAgg /\ [][NextAgg]_vars

--------------------------------------------------------------------------
(* The server: sessions that share UPLOAD_DIR and the cache of the loader  *)

\* Bound of the uploads of one session
MaxUploads == 2

PeriodLabels == {"prev", "curr"}

FileNames == {"a.csv", "b.csv"}

\* What the uploaded files hold: two tables that differ
Contents == {Table(1, {}), Table(0, {1})}

\* uploaded_file: its name and getvalue(); None when the widget is empty
UploadedFiles == [name : FileNames, content : Contents]

NoUpload == [name |-> "none", content |-> NoPath]

\* os.path.join(UPLOAD_DIR, f"{label}_{uploaded_file.name}")
file_path(label, name) == <<label, name>>

Paths == {file_path(l, n) : l \in PeriodLabels, n \in FileNames}

\* session_state.get("file1_path") of a session that has stored none
NoPathYet == <<>>

\* save_uploaded_file with the directory it writes to: the directory after
\* the call, and the path the call returns (None for an empty widget)
WriteUpload(dir, uploaded_file, label) ==
    IF uploaded_file = NoUpload THEN dir
    ELSE [dir EXCEPT ![file_path(label, uploaded_file.name)] = uploaded_file.content]

SavedPath(uploaded_file, label) ==
    IF uploaded_file = NoUpload THEN NoPathYet
    ELSE file_path(label, uploaded_file.name)

Miss == [hit |-> FALSE, value |-> None]

\* @st.cache_data: the call with arguments the cache has seen returns the
\* value kept for them; any other call runs the function on what is at the
\* path now and keeps its value.  The result is [value, cache].
CachedLoad(c, dir, path, label) ==
    IF path = NoPathYet THEN [value |-> None, cache |-> c]
    ELSE IF c[<<path, label>>].hit
         THEN [value |-> c[<<path, label>>].value, cache |-> c]
    ELSE LET df == load_and_preprocess_from_path(dir[path], label)
         IN  [value |-> df,
              cache |-> [c EXCEPT ![<<path, label>>] = [hit |-> TRUE, value |-> df]]]

NewSession ==
    [uploaded_file1 |-> NoUpload,
     uploaded_file2 |-> NoUpload,
     session_state |-> [file1_path |-> NoPathYet, file2_path |-> NoPathYet],
     df_prev |-> None,
     df_curr |-> None,
     uploads |-> 0,
     pc |-> "idle"]

InitServer(S) ==
    /\ upload_dir = [p \in Paths |-> NoPath]
    /\ cache = [k \in {<<p, l>> : p \in Paths, l \in PeriodLabels} |-> Miss]
    /\ sessions = [s \in S |-> NewSession]
    /\ session_state = [file1_path |-> NoPath, file2_path |-> NoPath]
    /\ df_prev = None
    /\ df_curr = None
    /\ arg = NoValue
    /\ ret = NoValue
    /\ ret2 = NoValue
    /\ pc = "server"

\* The first part of a run of the script for session s with the widgets w:
\* both uploads are written to UPLOAD_DIR and their paths recorded.
SaveUploads(s, w) ==
    LET p1 == SavedPath(w.uploaded_file1, "prev")
        p2 == SavedPath(w.uploaded_file2, "curr")
        ss == sessions[s].session_state
    IN  /\ upload_dir' = WriteUpload(WriteUpload(upload_dir, w.uploaded_file1, "prev"),
                                     w.uploaded_file2, "curr")
        /\ sessions' = [sessions EXCEPT ![s] =
               [w EXCEPT !.session_state =
                      [file1_path |-> IF p1 # NoPathYet THEN p1 ELSE ss.file1_path,
                       file2_path |-> IF p2 # NoPathYet THEN p2 ELSE ss.file2_path],
                         !.pc = "saved"]]
        /\ UNCHANGED <<cache, session_state, df_prev, df_curr, arg, ret, ret2, pc>>

\* The user of session s puts a file into one of the two uploaders, and the
\* script starts to run
UploadFile(s) ==
    /\ sessions[s].pc = "idle"
    /\ sessions[s].uploads < MaxUploads
    /\ \E f \in UploadedFiles :
          \/ SaveUploads(s, [sessions[s] EXCEPT !.uploaded_file1 = f,
                                                 !.uploads = @ + 1])
          \/ SaveUploads(s, [sessions[s] EXCEPT !.uploaded_file2 = f,
                                                 !.uploads = @ + 1])

\* The user of session s presses the report button, which the page has when
\* both frames are loaded: the script runs again with the same widgets
Interact(s) ==
    /\ sessions[s].pc = "idle"
    /\ sessions[s].df_prev.ok /\ sessions[s].df_curr.ok
    /\ SaveUploads(s, sessions[s])

\* The second part of the run: the two frames are loaded from the recorded
\* paths, and the page is made from them
LoadFrames(s) ==
    /\ sessions[s].pc = "saved"
    /\ LET ss == sessions[s].session_state
           r1 == CachedLoad(cache, upload_dir, ss.file1_path, "prev")
           r2 == CachedLoad(r1.cache, upload_dir, ss.file2_path, "curr")
       IN  /\ cache' = r2.cache
           /\ sessions' = [sessions EXCEPT ![s].df_prev = r1.value,
                                           ![s].df_curr = r2.value,
                                           ![s].pc = "idle"]
    /\ UNCHANGED <<upload_dir, session_state, df_prev, df_curr, arg, ret, ret2, pc>>

NextServer ==
    \/ \E s \in DOMAIN sessions : UploadFile(s)
    \/ \E s \in DOMAIN sessions : Interact(s)
    \/ \E s \in DOMAIN sessions : LoadFrames(s)

\* One session
InitUploads == InitServer({1})

SpecUploads == InitUploads /\ [][NextServer]_vars

\* Two sessions served at the same time
InitSessions == InitServer({1, 2})

SpecSessions == InitSessions /\ [][NextServer]_vars

--------------------------------------------------------------------------
(* Properties of the comparison                                            *)

BothLoaded == df_prev.ok /\ df_curr.ok

\* The key of a loaded row under a grouping, and its measure
KeyOfRow(r, keyCol) ==
    IF keyCol = "group" THEN r.group ELSE extract_prefix(r.category)

ValOfRow(r, valCol) == IF valCol = "amount" THEN Num(r.amount) ELSE r.orders

PeriodKeys(rows, keyCol) == {KeyOfRow(rows[i], keyCol) : i \in 1..Len(rows)}

RECURSIVE PeriodSum(_, _, _, _)
PeriodSum(rows, keyCol, valCol, key) ==
    IF rows = <<>> THEN 0
    ELSE (IF KeyOfRow(Head(rows), keyCol) = key THEN ValOfRow(Head(rows), valCol) ELSE 0)
         + PeriodSum(Tail(rows), keyCol, valCol, key)

RowKeys(cmp) == {cmp[i].key : i \in 1..Len(cmp)}

Min(a, b) == IF a < b THEN a ELSE b

\* The keys of cmp are the TopN keys of largest previous + current sum, a
\* missing side counting as 0, or all keys when there are at most TopN
IsTopByCombined(cmp, keyCol, valCol) ==
    LET all == PeriodKeys(df_prev.rows, keyCol) \cup PeriodKeys(df_curr.rows, keyCol)
        comb == [k \in all |-> PeriodSum(df_prev.rows, keyCol, valCol, k)
                               + PeriodSum(df_curr.rows, keyCol, valCol, k)]
        keys == RowKeys(cmp)
    IN  /\ keys \subseteq all
        /\ Cardinality(keys) = Min(TopN, Cardinality(all))
        /\ \A k \in keys : \A j \in all \ keys : comb[k] >= comb[j]

C1On(o) ==
    BothLoaded =>
        /\ IsTopByCombined(o.compare, "group", "amount")
        /\ IsTopByCombined(o.order_compare, "prefix", "orders")

\* C1: the keys of the comparison rows are exactly the 10 keys with the
\* largest combined previous + current sum (all keys when at most 10
\* exist), a key of one period only being ranked by that period's sum.
C1_TopTenByCombinedSum == C1On(page)

\* Every key of either period is in exactly one row of cmp, with 0 for the
\* period that lacks it
EveryKeyOnce(cmp, keyCol) ==
    LET pk == PeriodKeys(df_prev.rows, keyCol)
        ck == PeriodKeys(df_curr.rows, keyCol)
    IN  Cardinality(pk \cup ck) <= 10 =>
            \A k \in pk \cup ck :
                /\ Cardinality({i \in 1..Len(cmp) : cmp[i].key = k}) = 1
                /\ \A i \in 1..Len(cmp) :
                      cmp[i].key = k =>
                          /\ k \notin pk => cmp[i].previous = 0
                          /\ k \notin ck => cmp[i].current = 0

C2On(o) ==
    BothLoaded =>
        /\ EveryKeyOnce(o.compare, "group")
        /\ EveryKeyOnce(o.order_compare, "prefix")

\* C2: with at most 10 distinct keys in the two periods together, every key
\* of either period is in exactly one comparison row, and a key of one
\* period only has value 0 for the other period.
C2_OuterMergeKeepsEveryKey == C2On(page)

C2WitnessOn(o) ==
    /\ BothLoaded
    /\ Cardinality(PeriodKeys(df_prev.rows, "group") \cup PeriodKeys(df_curr.rows, "group")) = 10
    /\ \E i \in 1..Len(o.compare) :
          /\ o.compare[i].key \notin PeriodKeys(df_curr.rows, "group")
          /\ o.compare[i].previous > 0
          /\ o.compare[i].current = 0
    /\ \E i \in 1..Len(o.compare) :
          /\ o.compare[i].key \notin PeriodKeys(df_prev.rows, "group")
          /\ o.compare[i].current > 0

C2_Witness == C2WitnessOn(page)

\* q is the number n
RatioIs(q, n) == ~q.nan /\ q.num = n * q.den

DeltaAndRate(cmp) ==
    \A i \in 1..Len(cmp) :
        LET r == cmp[i]
            d == IF r.previous # 0 THEN r.previous ELSE 1
        IN  /\ r.delta = r.current - r.previous
            /\ ~r.delta_rate.nan
            /\ r.delta_rate.num * d = r.delta * 100 * r.delta_rate.den

C3On(o) == DeltaAndRate(o.compare) /\ DeltaAndRate(o.order_compare)

\* C3: every comparison row of the report has delta = current - previous
\* and delta_rate = delta / d * 100, d being previous, or 1 when previous
\* is 0.
C3_DeltaAndRate == C3On(page)

HasRow(cmp, prev, curr, delta, rate) ==
    \E i \in 1..Len(cmp) :
        /\ cmp[i].previous = prev
        /\ cmp[i].current = curr
        /\ cmp[i].delta = delta
        /\ RatioIs(cmp[i].delta_rate, rate)

C3WitnessOn(o) ==
    /\ HasRow(o.compare, 100, 150, 50, 50)
    /\ HasRow(o.compare, 50, 0, -50, -100)
    /\ HasRow(o.compare, 0, 20, 20, 2000)

C3_Witness == C3WitnessOn(page)

NonNegative(rows) ==
    \A i \in 1..Len(rows) : rows[i].amount.k \in {"int", "float"}

C4On(o) ==
    (df_curr.ok /\ NonNegative(df_curr.rows)) =>
        /\ ~o.sales_ratio.nan
        /\ 0 <= o.sales_ratio.num
        /\ o.sales_ratio.num <= 100 * o.sales_ratio.den
        /\ Total(df_curr.rows) = 0 => RatioIs(o.sales_ratio, 0)

\* C4: for a period whose amounts are all non-negative the top-5
\* concentration ratio is a number in [0, 100], and it is 0, with no
\* division by zero, when the total amount is 0.
C4_RatioBounded == C4On(page)

Disjoint(a, b) == RowKeys(a) \cap RowKeys(b) = {}

C9On(o) ==
    /\ Len(o.compare) >= 6 => Disjoint(o.top3, o.bottom3)
    /\ Len(o.order_compare) >= 6 => Disjoint(o.top3_order, o.bottom3_order)

\* C9: when the comparison has at least 6 rows, the top-3 list and the
\* bottom-3 list of the report have no key in common.
C9_TopBottomDisjoint == C9On(page)

Mirrored(a, b) ==
    /\ RowKeys(a) = RowKeys(b)
    /\ \A i \in 1..Len(a) : \A j \in 1..Len(b) :
          a[i].key = b[j].key =>
              /\ a[i].previous = b[j].current
              /\ a[i].current = b[j].previous
              /\ a[i].delta = -b[j].delta

C10On(pq, qp) == BothLoaded => Mirrored(pq, qp)

\* C10: compare(P, Q) and compare(Q, P) have the same keys, and for each
\* key the previous and current values swapped and the delta negated.
C10_ComparatorSymmetry ==
    C10On(page.compare, group_compare(df_curr.rows, df_prev.rows))

C10WitnessOn(o) ==
    /\ BothLoaded
    /\ Len(o.compare) = 10
    /\ Cardinality(PeriodKeys(df_prev.rows, "group") \cup PeriodKeys(df_curr.rows, "group")) > 10
    /\ \E i \in 1..Len(o.compare) :
          o.compare[i].previous # o.compare[i].current /\ o.compare[i].delta > 0

C10_Witness == C10WitnessOn(page)

--------------------------------------------------------------------------
(* Properties of the loader and of the two text functions                  *)

NonDefaultableCols == {"category", "product", "orders", "amount"}

\* C5: the load returns no records at all when one of the four
\* non-defaultable columns is absent, whichever other columns are there,
\* and the absence of the branch and month columns alone never makes the
\* load of a supported file fail.
C5_MissingColumnAborts ==
    pc = "done" =>
        /\ ~(NonDefaultableCols \subseteq arg.cols) => ret = None
        /\ (NonDefaultableCols \subseteq arg.cols /\ arg.ext \in {".xls", ".xlsx", ".csv"}) =>
              /\ ret.ok
              /\ Len(ret.rows) = Len(arg.rows)
              /\ ret.filled = {"branch", "month"} \ arg.cols

C5_Witness ==
    /\ pc = "done"
    /\ arg.ext = ".csv"
    /\ arg.cols = {"category", "product", "orders", "branch"}
    /\ Len(arg.rows) > 0
    /\ ret = None

\* the text before the first "(" of s, trimmed
BeforeParen(s) ==
    Strip(SubSeq(s, 1, (CHOOSE i \in 1..(Len(s) + 1) :
                            /\ i = Len(s) + 1 \/ s[i] = "("
                            /\ \A j \in 1..(i - 1) : s[j] # "(") - 1))

\* C6: prefix_key returns the trimmed text before the first "(", and the
\* sentinel whenever the label is empty or blank or that trimmed text is
\* empty; it never returns an empty text.
C6_PrefixNeverEmpty ==
    (pc \in {"prefix", "done"} /\ arg.k = "str") =>
        /\ ret.d # <<>>
        /\ ret.d = IF BeforeParen(arg.d) = <<>> THEN Gita ELSE BeforeParen(arg.d)

IsNumber(v) == v.k \in {"int", "float"}

IsZero(v) == IsNumber(v) /\ v.d = <<"0">>

HasDigit(s) == \E i \in 1..Len(s) : IsDigit(s[i])

\* C7: normalize_amount returns a non-negative number for every raw value,
\* and 0 whenever the value cannot be parsed as a number.
C7_AmountNonNegative ==
    pc \in {"loaded", "done"} =>
        /\ IsNumber(ret)
        /\ ~HasDigit(PyStr(arg)) => IsZero(ret)

\* the same number, or the same special value
SameAmount(a, b) ==
    IF IsNumber(a) /\ IsNumber(b) THEN a.d = b.d ELSE a.k = b.k

\* C8: normalizing a normalized amount changes nothing.
C8_NormalizeIdempotent == pc = "done" => SameAmount(ret2, ret)

--------------------------------------------------------------------------
(* Properties of the aggregation                                           *)

RECURSIVE SumOf(_, _)
SumOf(s, f) == IF s = <<>> THEN 0 ELSE Head(s)[f] + SumOf(Tail(s), f)

\* the rows of the frame whose 분류그룹 is key
RecordsOf(rows, key) == {i \in 1..Len(rows) : rows[i].group = key}

\* Sums: nothing dropped, nothing counted twice
SumsKept ==
    /\ SumOf(ret2.top_categories, "sum") = Total(ret)
    /\ {ret2.top_categories[i].key : i \in 1..Len(ret2.top_categories)}
           = {ret[i].group : i \in 1..Len(ret)}
    /\ SumOf(ret2.top10_order_group, "v") = SumOf(ret, "orders")

\* Counts: the bucket of a key counts the records of that key
CountsKept ==
    \A i \in 1..Len(ret2.top_categories) :
        ret2.top_categories[i].count
            = Cardinality(RecordsOf(ret, ret2.top_categories[i].key))

\* C11: the sum of all buckets' sums is the sum of all records' normalized
\* amounts, with one bucket per key, and every bucket's count is the number
\* of records mapped to its key.
C11_AggregationKeepsEveryRecord == pc = "done" => SumsKept /\ CountsKept

\* The sums alone
C11_SumsKept == pc = "done" => SumsKept

\* The counts over frames that hold no NaN amount
C11_CountsKeptWithoutNaN ==
    (pc = "done" /\ \A i \in 1..Len(ret) : ~IsNa(ret[i].amount)) => CountsKept

--------------------------------------------------------------------------
(* Properties of the uploads                                               *)

\* The frame the loader makes of an uploaded file
Decoded(uploaded_file, label) ==
    load_and_preprocess_from_path(uploaded_file.content, label)

\* Session s, its run finished, shows each period from the file that is in
\* the uploader of that period
ShowsOwnUploads(s) ==
    sessions[s].pc = "idle" =>
        /\ sessions[s].uploaded_file1 # NoUpload =>
              sessions[s].df_prev = Decoded(sessions[s].uploaded_file1, "prev")
        /\ sessions[s].uploaded_file2 # NoUpload =>
              sessions[s].df_curr = Decoded(sessions[s].uploaded_file2, "curr")

\* C12: with two sessions served at the same time, in every interleaving of
\* their runs, the records each session analyses are those of the files
\* that session uploaded, files of the same name and different content
\* included.
C12_SessionsOwnSnapshot ==
    \A s \in DOMAIN sessions : \A t \in DOMAIN sessions \ {s} : ShowsOwnUploads(s)

\* C13: in one session, after any sequence of uploads, the records analysed
\* for a period are those of the file uploaded last for it, also when that
\* file has the name of an earlier upload and another content.
C13_LatestUploadUsed ==
    DOMAIN sessions = {1} => ShowsOwnUploads(1)

====
